---- MODULE Spec2Model ----
(***************************************************************************)
(* wfmash: the alignment pipeline of align::Aligner::computeAlignments     *)
(* (computeAlignments.hpp) and the command line of yeet::parse_args        *)
(* (parse_args.hpp) as state machines.                                     *)
(*                                                                         *)
(* Encodings.  The mapping file is a sequence of runs [qId, ncols, n]: n   *)
(* consecutive lines with query name qId and ncols whitespace-separated    *)
(* columns (ncols = 0 is an empty line); the file ends with a newline.     *)
(* seq_queue is a FIFO of seq_record_t*, stored run-length encoded: a      *)
(* segment [row, rank, n] stands for the n records of lines row..row+n-1   *)
(* with rankMapping rank..rank+n-1, in that order.                         *)
(* One mapping row is also followed on its own from its tokens through    *)
(* parseMashmapRow to the wflign call of doAlignment (SpecRow), and        *)
(* handy_parameter is run on single strings (SpecHandy).                   *)
(***************************************************************************)
EXTENDS Integers, Sequences, FiniteSets, TLC

VARIABLES
    threads,            \* param.threads
    mashmapPafFile,     \* content of param.mashmapPafFile (runs of lines)
    querySequences,     \* names of the sequences of the query file, in order
    faidxs,             \* Aligner::faidxs, one handle per index
    main_pc,            \* position of the thread running computeAlignments
    exit_code,          \* -1 while the process runs, else its exit status
    stderr_diag,        \* number of diagnostics the process wrote to stderr
    reader,             \* reader_thread: its locals and position
    seq_queue,          \* seq_atomic_queue_t seq_queue
    reader_done,        \* std::atomic<bool> reader_done
    working,            \* std::vector<std::atomic<bool>> working
    worker,             \* worker_thread(tid): its locals and position
    paf_queue,          \* paf_atomic_queue_t paf_queue
    writer,             \* writer_thread: its locals and position
    outstrm,            \* lines written to param.pafOutputFile
    paf_pushed,         \* history: strings pushed to paf_queue, in order
    push_returned,      \* history: number of seq_queue.push calls returned
    seq_pushed,         \* history: records pushed to seq_queue, in order
    seq_popped,         \* history: number of successful seq_queue.try_pop
    faidx_used,         \* history: handle -> tids that called htslib on it
    stop,               \* the cancellation request of the design document
    argv,               \* the command line given to parse_args
    args_pc,            \* position of parse_args
    map_parameters,     \* skch::Parameters filled by parse_args
    align_parameters,   \* align::Parameters filled by parse_args
    yeet_parameters,    \* yeet::Parameters filled by parse_args
    row_pc,             \* position of one mapping row on its way
    mappingRecordLine,  \* the tokens of the row
    query_rows,         \* number of rows its query has in the file
    currentRecord,      \* MappingBoundaryRow parsed from the row
    ref_size,           \* faidx_seq_len of the target of the row
    param,              \* align::Parameters read by doAlignment
    alignment,          \* locals of doAlignment at the wflign call
    handy_call          \* one call of handy_parameter: value, result

pipe_vars == <<threads, mashmapPafFile, querySequences, faidxs, main_pc,
               exit_code, stderr_diag, reader, seq_queue, reader_done,
               working, worker, paf_queue, writer, outstrm,
               paf_pushed, push_returned, seq_pushed, seq_popped,
               faidx_used>>
stop_vars == <<stop>>
args_vars == <<argv, args_pc, map_parameters, align_parameters,
               yeet_parameters>>
row_vars == <<row_pc, mappingRecordLine, query_rows, currentRecord,
              ref_size, param, alignment>>
handy_vars == <<handy_call>>
vars == <<pipe_vars, stop_vars, args_vars, row_vars, handy_vars>>

----------------------------------------------------------------------------
(* Bounds of the model *)

MaxThreads == 2         \* param.threads ranges over 1..MaxThreads
MaxRows == 2            \* lines of the small mapping files
MaxOutLines == 2        \* lines of one alignment's output string

(* Program constants *)

SeqQueueCapacity == 131072      \* AtomicQueue<seq_record_t*, 2 << 16>
PafQueueCapacity == 131072      \* AtomicQueue<std::string*, 2 << 16>
MinColumns == 9                 \* assert(tokens.size() >= 9)
IdentityColumn == 13            \* tokens[12]

QueryIds == {1, 2}

----------------------------------------------------------------------------
(* The mapping file as a stream of lines *)

EmptyLine == [qId |-> 0, ncols |-> 0, no |-> 0]

RECURSIVE FileLen(_)
FileLen(f) == IF f = <<>> THEN 0 ELSE Head(f).n + FileLen(Tail(f))

RECURSIVE RowAt(_, _)
RowAt(f, i) ==
    IF i <= Head(f).n
    THEN [qId |-> Head(f).qId, ncols |-> Head(f).ncols]
    ELSE RowAt(Tail(f), i - Head(f).n)

\* std::getline(mappingListStream, mappingRecordLine) with the stream at
\* line pos: [ok, pos, eof, line]
GetLine(f, pos) ==
    IF pos <= FileLen(f)
    THEN LET r == RowAt(f, pos)
         IN [ok |-> TRUE, pos |-> pos + 1, eof |-> FALSE,
             line |-> IF r.ncols = 0 THEN EmptyLine
                      ELSE [qId |-> r.qId, ncols |-> r.ncols, no |-> pos]]
    ELSE [ok |-> FALSE, pos |-> pos, eof |-> TRUE, line |-> EmptyLine]

LineEmpty(line) == line.ncols = 0

\* parseMashmapRow on a line with ncols tokens.  tokens[12] is read whatever
\* the size of tokens, and assert(tokens.size() >= 9) is compiled out under
\* NDEBUG: reading past the end of the vector is undefined behaviour.
\*   "ok"       all fields read
\*   "abort"    the assertion fails (or std::stoi throws): SIGABRT
\*   "segv"     the out-of-bounds read faults
\*   "garbage"  the out-of-bounds read returns and parsing goes on
ParseOutcomes(ncols) ==
    IF ncols >= IdentityColumn THEN {"ok"}
    ELSE IF ncols >= MinColumns THEN {"segv", "garbage"}
    ELSE IF ncols >= 1 THEN {"abort", "segv", "garbage"}
    ELSE {"abort", "segv"}

Fatal(outcome) == outcome \in {"abort", "segv"}
ExitStatus(outcome) == IF outcome = "abort" THEN 134 ELSE 139
Diagnostics(outcome) == IF outcome = "abort" THEN 1 ELSE 0

----------------------------------------------------------------------------
(* atomic_queue::AtomicQueue<T, SIZE>: a bounded FIFO; push waits while    *)
(* the queue is full, try_pop fails on an empty queue.                     *)

RECURSIVE QueueLen(_)
QueueLen(q) == IF q = <<>> THEN 0 ELSE Head(q).n + QueueLen(Tail(q))

QueueFront(q) == [row |-> Head(q).row, rank |-> Head(q).rank]

QueuePop(q) ==
    IF Head(q).n = 1 THEN Tail(q)
    ELSE <<[row |-> Head(q).row + 1, rank |-> Head(q).rank + 1,
            n |-> Head(q).n - 1]>> \o Tail(q)

QueuePush(q, r) ==
    IF q # <<>> /\ q[Len(q)].row + q[Len(q)].n = r.row
                /\ q[Len(q)].rank + q[Len(q)].n = r.rank
    THEN [q EXCEPT ![Len(q)].n = @ + 1]
    ELSE Append(q, [row |-> r.row, rank |-> r.rank, n |-> 1])

----------------------------------------------------------------------------
(* Aligner::Aligner and the start of computeAlignments *)

Workers == 0 .. threads - 1

\* getRefSequences: one fai_load per thread, faidxs[i] is handle i
GetRefSequences(nthreads) == [i \in 0 .. nthreads - 1 |-> i]

\* std::vector<std::atomic<bool>> working(nthreads); w.store(true)
InitialWorking_unset(nthreads) == [t \in 0 .. nthreads - 1 |-> FALSE]
InitialWorking(nthreads) == [t \in 0 .. nthreads - 1 |-> TRUE]

NullRec == [ptr |-> FALSE, row |-> 0, rank |-> 0]
NullStr == [ptr |-> FALSE, str |-> <<>>]

ReaderInit == [pc |-> "seq", pos |-> 1, eof |-> FALSE, line |-> EmptyLine,
               qi |-> 1, rank_mapping |-> 0, total_seqs |-> 0]
WorkerInit == [pc |-> "start", rec |-> NullRec]
WriterInit == [pc |-> "pop", paf_lines |-> NullStr, w |-> 0]

\* the lines of the small mapping files: a well-formed row of either query,
\* and besides these a row of 8 columns, a row of 12 columns, an empty line
GoodRows == {[qId |-> q, ncols |-> IdentityColumn, n |-> 1] : q \in QueryIds}
AnyRows == GoodRows
           \cup {[qId |-> 1, ncols |-> MinColumns - 1, n |-> 1],
                 [qId |-> 1, ncols |-> IdentityColumn - 1, n |-> 1],
                 [qId |-> 0, ncols |-> 0, n |-> 1]}

RECURSIVE SeqsUpTo(_, _)
SeqsUpTo(S, k) ==
    IF k = 0 THEN {<<>>}
    ELSE LET shorter == SeqsUpTo(S, k - 1)
         IN shorter \cup {Append(f, r) : f \in shorter, r \in S}

GoodFiles == SeqsUpTo(GoodRows, MaxRows)
AnyFiles == SeqsUpTo(AnyRows, MaxRows)

\* struct Parameters { bool approx_mapping = false; bool remapping = false; }
YeetDefaults == [approx_mapping |-> FALSE, remapping |-> FALSE]

\* skch::Parameters before parse_args has assigned its fields
MapUnset == [segLength |-> 0, percentageIdentity |-> <<0, 1>>,
             block_length |-> 0, chain_gap |-> 0,
             max_mapping_length |-> <<0, 0, 0>>,
             index_by_size |-> <<0, 0, 0>>, outFileName |-> "",
             filterMode |-> "unset",
             sparsity_hash_threshold |-> <<0, 0, 0>>,
             kmerSize |-> 0, sketchSize |-> 0, numMappingsForSegment |-> 0,
             totalReferenceSize |-> 0,
             estimatedUniqueKmers |-> [totalSize |-> 0, kmerSize |-> 0]]

\* align::Parameters before parse_args has assigned its fields
AlignUnset == [wfa_mismatch_score |-> 0, wfa_gap_opening_score |-> 0,
               wfa_gap_extension_score |-> 0,
               wfa_patching_mismatch_score |-> 0,
               wfa_patching_gap_opening_score1 |-> 0,
               wfa_patching_gap_extension_score1 |-> 0,
               wfa_patching_gap_opening_score2 |-> 0,
               wfa_patching_gap_extension_score2 |-> 0]

\* no mapping row under way outside doAlignment's own specification
NoRecord == [qId |-> 0, qStartPos |-> 0, qEndPos |-> 0, strand |-> "",
             refId |-> 0, rStartPos |-> 0, rEndPos |-> 0,
             mashmap_estimated_identity |-> 0, rankMapping |-> 0]
NoParam == [wflign_max_len_minor |-> 0, split |-> FALSE,
            sam_format |-> FALSE]
NoAlignment == [head_padding |-> 0, tail_padding |-> 0, fetch_beg |-> 0,
                fetch_end |-> 0, ref_seq |-> 0, refLen |-> 0,
                query_name |-> <<>>]

RowIdle ==
    /\ row_pc = "idle"
    /\ mappingRecordLine = <<>>
    /\ query_rows = 0
    /\ currentRecord = NoRecord
    /\ ref_size = 0
    /\ param = NoParam
    /\ alignment = NoAlignment

HandyIdle == handy_call = [pc |-> "idle"]

ArgsIdle ==
    /\ argv = <<>>
    /\ args_pc = "idle"
    /\ map_parameters = MapUnset
    /\ align_parameters = AlignUnset
    /\ yeet_parameters = YeetDefaults

PipeInit(nthreads, file, queries) ==
    /\ threads = nthreads
    /\ mashmapPafFile = file
    /\ querySequences = queries
    /\ faidxs = GetRefSequences(nthreads)
    /\ main_pc = "prepass"
    /\ exit_code = -1
    /\ stderr_diag = 0
    /\ reader = ReaderInit
    /\ seq_queue = <<>>
    /\ reader_done = FALSE
    /\ working = <<>>
    /\ worker = [t \in 0 .. nthreads - 1 |-> WorkerInit]
    /\ paf_queue = <<>>
    /\ writer = WriterInit
    /\ outstrm = <<>>
    /\ paf_pushed = <<>>
    /\ push_returned = 0
    /\ seq_pushed = <<>>
    /\ seq_popped = 0
    /\ faidx_used = [h \in 0 .. nthreads - 1 |-> {}]
    /\ stop = FALSE

Init ==
    /\ \E nthreads \in 1 .. MaxThreads, file \in GoodFiles :
           PipeInit(nthreads, file, <<1, 2>>)
    /\ ArgsIdle
    /\ RowIdle
    /\ HandyIdle

----------------------------------------------------------------------------
(* computeAlignments, lines 163-198: the pass that sums the mapped bases,  *)
(* then the queues and flags                                               *)

RECURSIVE LinesParsed(_)
\* the column counts of the non-empty lines, which the pass parses in order
LinesParsed(f) ==
    IF f = <<>> THEN {}
    ELSE (IF Head(f).ncols = 0 THEN {} ELSE {Head(f).ncols})
         \cup LinesParsed(Tail(f))

\* the first parse that is not "ok" decides how the pass ends; when every
\* parse returns, the pass returns
PrePassOutcomes(f) ==
    LET bad == {c \in LinesParsed(f) : c < IdentityColumn}
    IN  IF bad = {} THEN {"ok"}
        ELSE {"garbage"} \cup
             UNION {ParseOutcomes(c) \ {"garbage"} : c \in bad}

Die(outcome) ==
    /\ main_pc' = "aborted"
    /\ exit_code' = ExitStatus(outcome)
    /\ stderr_diag' = stderr_diag + Diagnostics(outcome)

PrePass ==
    /\ main_pc = "prepass"
    /\ \E outcome \in PrePassOutcomes(mashmapPafFile) :
          IF Fatal(outcome)
          THEN /\ Die(outcome)
               /\ UNCHANGED <<reader_done, working>>
          ELSE /\ main_pc' = "running"
               /\ reader_done' = FALSE
               /\ working' = InitialWorking(threads)
               /\ UNCHANGED <<exit_code, stderr_diag>>
    /\ UNCHANGED <<threads, mashmapPafFile, querySequences, faidxs, reader,
                   seq_queue, worker, paf_queue, writer, outstrm, paf_pushed,
                   push_returned, seq_pushed, seq_popped, faidx_used,
                   stop_vars, args_vars, row_vars, handy_vars>>

----------------------------------------------------------------------------
(* reader_thread, lines 201-277 *)

RECURSIVE SkipEmpty(_, _)
\* while(!mappingListStream.eof() && mappingRecordLine.empty()) getline
SkipEmpty(f, rd) ==
    IF rd.eof \/ ~LineEmpty(rd.line) THEN rd
    ELSE LET g == GetLine(f, rd.pos)
         IN SkipEmpty(f, [rd EXCEPT !.pos = g.pos, !.eof = g.eof,
                                    !.line = g.line])

\* the callback returns with the line it could not use still in
\* mappingRecordLine; for_each_seq_in_file goes on to the next sequence
NextSeq_drop(rd) ==
    [rd EXCEPT !.pc = "seq", !.qi = @ + 1, !.line = EmptyLine]
NextSeq(rd) == [rd EXCEPT !.pc = "seq", !.qi = @ + 1]

\* new seq_record_t(currentRecord, mappingRecordLine, seq) with rankMapping
\* = rank_mapping, appended to the records pushed so far; runs of
\* consecutive lines of one sequence with consecutive ranks are kept as
\* [row, rank, seq, n]
Enqueued(h, rd) ==
    LET k == Len(h)
    IN  IF k > 0 /\ h[k].row + h[k].n = rd.line.no
                 /\ h[k].rank + h[k].n = rd.rank_mapping
                 /\ h[k].seq = rd.qi
        THEN [h EXCEPT ![k].n = @ + 1]
        ELSE Append(h, [row |-> rd.line.no, rank |-> rd.rank_mapping,
                        seq |-> rd.qi, n |-> 1])

\* the callback of for_each_seq_in_file starts: ++total_seqs; uint64_t
\* rank_mapping = 0
BeginCallback_keep(rd) == [rd EXCEPT !.total_seqs = @ + 1]
BeginCallback(rd) == [rd EXCEPT !.total_seqs = @ + 1, !.rank_mapping = 0]

ReaderUnchanged ==
    UNCHANGED <<threads, mashmapPafFile, querySequences, faidxs, working,
                worker, paf_queue, writer, outstrm, paf_pushed, seq_popped,
                faidx_used, stop_vars, args_vars,
                row_vars, handy_vars>>

\* the callback of for_each_seq_in_file up to the first push, lines 218-246;
\* after the last sequence the stream is closed
ReaderBeginSeq ==
    /\ main_pc = "running"
    /\ reader.pc = "seq"
    /\ IF reader.qi > Len(querySequences)
       THEN /\ reader' = [reader EXCEPT !.pc = "finish"]
            /\ UNCHANGED <<main_pc, exit_code, stderr_diag>>
       ELSE LET rd == SkipEmpty(mashmapPafFile, BeginCallback(reader))
            IN  IF LineEmpty(rd.line)
                THEN /\ reader' = NextSeq(rd)
                     /\ UNCHANGED <<main_pc, exit_code, stderr_diag>>
                ELSE \E outcome \in ParseOutcomes(rd.line.ncols) :
                       IF Fatal(outcome)
                       THEN /\ Die(outcome)
                            /\ reader' = rd
                       ELSE /\ reader' =
                                 IF rd.line.qId = querySequences[rd.qi]
                                 THEN [rd EXCEPT !.pc = "push"]
                                 ELSE NextSeq(rd)
                            /\ UNCHANGED <<main_pc, exit_code, stderr_diag>>
    /\ UNCHANGED <<seq_queue, reader_done, push_returned, seq_pushed>>
    /\ ReaderUnchanged

\* the head of the loop of lines 253-268, run after each push:
\* while(std::getline(...)) { parseMashmapRow; if (qId != qSeqId) break; ...
ReaderLoopHead(rd0) ==
    LET g == GetLine(mashmapPafFile, rd0.pos)
        rd == [rd0 EXCEPT !.pos = g.pos, !.eof = g.eof, !.line = g.line]
    IN  IF ~g.ok
        THEN /\ reader' = NextSeq(rd)
             /\ UNCHANGED <<main_pc, exit_code, stderr_diag>>
        ELSE \E outcome \in ParseOutcomes(rd.line.ncols) :
               IF Fatal(outcome)
               THEN /\ Die(outcome)
                    /\ reader' = rd
               ELSE /\ reader' =
                         IF rd.line.qId = querySequences[rd.qi]
                         THEN [rd EXCEPT !.pc = "push"]
                         ELSE NextSeq(rd)
                    /\ UNCHANGED <<main_pc, exit_code, stderr_diag>>

\* lines 248-250 and 264-266: q = new seq_record_t(...); rankMapping =
\* rank_mapping++; seq_queue.push(q), which waits while the queue is full;
\* then the head of the loop
ReaderPush_try ==
    /\ main_pc = "running"
    /\ reader.pc = "push"
    /\ seq_queue' =
         IF QueueLen(seq_queue) < SeqQueueCapacity
         THEN QueuePush(seq_queue, [row |-> reader.line.no,
                                    rank |-> reader.rank_mapping])
         ELSE seq_queue
    /\ push_returned' = push_returned + 1
    /\ seq_pushed' = Enqueued(seq_pushed, reader)
    /\ ReaderLoopHead([reader EXCEPT !.rank_mapping = @ + 1])
    /\ UNCHANGED reader_done
    /\ ReaderUnchanged

ReaderPush ==
    /\ main_pc = "running"
    /\ reader.pc = "push"
    /\ QueueLen(seq_queue) < SeqQueueCapacity
    /\ seq_queue' = QueuePush(seq_queue, [row |-> reader.line.no,
                                          rank |-> reader.rank_mapping])
    /\ push_returned' = push_returned + 1
    /\ seq_pushed' = Enqueued(seq_pushed, reader)
    /\ ReaderLoopHead([reader EXCEPT !.rank_mapping = @ + 1])
    /\ UNCHANGED reader_done
    /\ ReaderUnchanged

\* reader_done.store(true)
ReaderDone ==
    /\ main_pc = "running"
    /\ reader.pc = "finish"
    /\ reader_done' = TRUE
    /\ reader' = [reader EXCEPT !.pc = "done"]
    /\ UNCHANGED <<main_pc, exit_code, stderr_diag, seq_queue,
                   push_returned, seq_pushed>>
    /\ ReaderUnchanged

----------------------------------------------------------------------------
(* worker_thread, lines 334-380, and doAlignment *)

WorkerUnchanged ==
    UNCHANGED <<threads, mashmapPafFile, querySequences, faidxs, main_pc,
                exit_code, stderr_diag, reader, writer, outstrm,
                push_returned, seq_pushed, stop_vars, args_vars,
                row_vars, handy_vars>>

\* is_working.store(true)
WorkerStart(t) ==
    /\ main_pc = "running"
    /\ worker[t].pc = "start"
    /\ working' = [working EXCEPT ![t] = TRUE]
    /\ worker' = [worker EXCEPT ![t].pc = "pop"]
    /\ UNCHANGED <<seq_queue, reader_done, paf_queue, paf_pushed,
                   seq_popped, faidx_used>>
    /\ WorkerUnchanged

\* seq_record_t* rec = nullptr; seq_queue.try_pop(rec)
WorkerTryPop(t) ==
    /\ main_pc = "running"
    /\ worker[t].pc = "pop"
    /\ IF seq_queue # <<>>
       THEN /\ worker' = [worker EXCEPT
                            ![t].pc = "align",
                            ![t].rec = [ptr |-> TRUE,
                                        row |-> QueueFront(seq_queue).row,
                                        rank |-> QueueFront(seq_queue).rank]]
            /\ seq_queue' = QueuePop(seq_queue)
            /\ seq_popped' = seq_popped + 1
       ELSE /\ worker' = [worker EXCEPT ![t].pc = "check"]
            /\ UNCHANGED <<seq_queue, seq_popped>>
    /\ UNCHANGED <<reader_done, working, paf_queue, paf_pushed, faidx_used>>
    /\ WorkerUnchanged

\* ... && reader_done.load(): break, else sleep_for(100ns) and loop
WorkerCheckDone(t) ==
    /\ main_pc = "running"
    /\ worker[t].pc = "check"
    /\ worker' = [worker EXCEPT ![t].pc = IF reader_done THEN "store"
                                          ELSE "pop"]
    /\ UNCHANGED <<seq_queue, reader_done, working, paf_queue, paf_pushed,
                   seq_popped, faidx_used>>
    /\ WorkerUnchanged

\* faidx_t* faid = faidxs[tid]
FaidxOf_shared(tid) == faidxs[0]
FaidxOf(tid) == faidxs[tid]

\* what wflign leaves in the std::stringstream output of one record: nothing,
\* or the lines of its alignment
AlignmentOutputs(rec) ==
    {<<>>, [k \in 1 .. MaxOutLines |-> <<rec.row, rec.rank, k>>]}

\* lines 344-374: doAlignment(output, rec->currentRecord, ..., tid) on the
\* handle of the thread; paf_rec = new std::string(output.str()), pushed
\* unless empty; delete rec
WorkerAlign_direct(t) ==
    /\ main_pc = "running"
    /\ worker[t].pc = "align"
    /\ \E out \in AlignmentOutputs(worker[t].rec) :
          outstrm' = outstrm \o out
    /\ faidx_used' = [faidx_used EXCEPT ![FaidxOf(t)] = @ \cup {t}]
    /\ worker' = [worker EXCEPT ![t].pc = "pop", ![t].rec = NullRec]
    /\ UNCHANGED <<seq_queue, reader_done, working, seq_popped, paf_queue,
                   paf_pushed>>
    /\ UNCHANGED <<threads, mashmapPafFile, querySequences, faidxs, main_pc,
                   exit_code, stderr_diag, reader, writer,
                   push_returned, seq_pushed, stop_vars, args_vars,
                   row_vars, handy_vars>>

WorkerAlign(t) ==
    /\ main_pc = "running"
    /\ worker[t].pc = "align"
    /\ \E out \in AlignmentOutputs(worker[t].rec) :
          IF out # <<>>
          THEN /\ Len(paf_queue) < PafQueueCapacity
               /\ paf_queue' = Append(paf_queue, out)
               /\ paf_pushed' = Append(paf_pushed, out)
          ELSE UNCHANGED <<paf_queue, paf_pushed>>
    /\ faidx_used' = [faidx_used EXCEPT ![FaidxOf(t)] = @ \cup {t}]
    /\ worker' = [worker EXCEPT ![t].pc = "pop", ![t].rec = NullRec]
    /\ UNCHANGED <<seq_queue, reader_done, working, seq_popped>>
    /\ WorkerUnchanged

\* is_working.store(false)
WorkerFinish(t) ==
    /\ main_pc = "running"
    /\ worker[t].pc = "store"
    /\ working' = [working EXCEPT ![t] = FALSE]
    /\ worker' = [worker EXCEPT ![t].pc = "done"]
    /\ UNCHANGED <<seq_queue, reader_done, paf_queue, paf_pushed,
                   seq_popped, faidx_used>>
    /\ WorkerUnchanged

----------------------------------------------------------------------------
(* writer_thread, lines 289-306, with still_working, lines 280-287 *)

WriterUnchanged ==
    UNCHANGED <<threads, mashmapPafFile, querySequences, faidxs, main_pc,
                exit_code, stderr_diag, reader, seq_queue, reader_done,
                working, worker, paf_pushed, push_returned, seq_pushed,
                seq_popped, faidx_used, stop_vars, args_vars, row_vars,
                handy_vars>>

\* std::string* paf_lines = nullptr; paf_queue.try_pop(paf_lines)
WriterTryPop ==
    /\ main_pc = "running"
    /\ writer.pc = "pop"
    /\ IF paf_queue # <<>>
       THEN /\ writer' = [writer EXCEPT
                            !.pc = "write",
                            !.paf_lines = [ptr |-> TRUE,
                                           str |-> Head(paf_queue)]]
            /\ paf_queue' = Tail(paf_queue)
       ELSE /\ writer' = [writer EXCEPT !.pc = "still_working", !.w = 0,
                                        !.paf_lines = NullStr]
            /\ UNCHANGED paf_queue
    /\ UNCHANGED outstrm
    /\ WriterUnchanged

\* ongoing = ongoing || w.load(), one flag per step: a true flag ends the
\* loads (the writer sleeps and polls again), the last false one ends the
\* writer
WriterStillWorking ==
    /\ main_pc = "running"
    /\ writer.pc = "still_working"
    /\ writer' =
         IF writer.w < threads /\ working[writer.w]
         THEN [writer EXCEPT !.pc = "pop"]
         ELSE IF writer.w + 1 < threads
         THEN [writer EXCEPT !.w = @ + 1]
         ELSE [writer EXCEPT !.pc = "done"]
    /\ UNCHANGED <<paf_queue, outstrm>>
    /\ WriterUnchanged

\* outstrm << *paf_lines; delete paf_lines
WriterWrite_front ==
    /\ main_pc = "running"
    /\ writer.pc = "write"
    /\ outstrm' = writer.paf_lines.str \o outstrm
    /\ writer' = [writer EXCEPT !.pc = "pop", !.paf_lines = NullStr]
    /\ UNCHANGED paf_queue
    /\ WriterUnchanged

WriterWrite ==
    /\ main_pc = "running"
    /\ writer.pc = "write"
    /\ outstrm' = outstrm \o writer.paf_lines.str
    /\ writer' = [writer EXCEPT !.pc = "pop", !.paf_lines = NullStr]
    /\ UNCHANGED paf_queue
    /\ WriterUnchanged

----------------------------------------------------------------------------
(* the joins, lines 398-411 *)

Join ==
    /\ main_pc = "running"
    /\ reader.pc = "done"
    /\ \A t \in Workers : worker[t].pc = "done"
    /\ writer.pc = "done"
    /\ main_pc' = "joined"
    /\ exit_code' = 0
    /\ UNCHANGED <<threads, mashmapPafFile, querySequences, faidxs,
                   stderr_diag, reader, seq_queue, reader_done, working,
                   worker, paf_queue, writer, outstrm, paf_pushed,
                   push_returned, seq_pushed, seq_popped, faidx_used,
                   stop_vars, args_vars, row_vars, handy_vars>>

Next ==
    \/ PrePass
    \/ ReaderBeginSeq
    \/ ReaderPush
    \/ ReaderDone
    \/ \E t \in Workers : WorkerStart(t)
    \/ \E t \in Workers : WorkerTryPop(t)
    \/ \E t \in Workers : WorkerCheckDone(t)
    \/ \E t \in Workers : WorkerAlign(t)
    \/ \E t \in Workers : WorkerFinish(t)
    \/ WriterTryPop
    \/ WriterStillWorking
    \/ WriterWrite
    \/ Join

Spec == Init /\ [][Next]_vars

----------------------------------------------------------------------------
(* The pipeline on mapping files with short rows and empty lines *)

InitRows ==
    /\ \E file \in AnyFiles : PipeInit(1, file, <<1, 2>>)
    /\ ArgsIdle
    /\ RowIdle
    /\ HandyIdle

SpecRows == InitRows /\ [][Next]_vars

----------------------------------------------------------------------------
(* The pipeline on mapping files of well-formed rows in any order, with    *)
(* rows of a query that is not in the query file and with empty lines      *)

OrderRows == GoodRows
             \cup {[qId |-> 3, ncols |-> IdentityColumn, n |-> 1],
                   [qId |-> 0, ncols |-> 0, n |-> 1]}

InitOrder ==
    /\ \E file \in SeqsUpTo(OrderRows, MaxRows) : PipeInit(1, file, <<1, 2>>)
    /\ ArgsIdle
    /\ RowIdle
    /\ HandyIdle

SpecOrder == InitOrder /\ [][Next]_vars

----------------------------------------------------------------------------
(* The pipeline under fair scheduling: the reader, each worker, the writer *)
(* and the thread of computeAlignments are OS threads, and each of them    *)
(* that can take a step eventually takes one                               *)

ReaderStep == ReaderBeginSeq \/ ReaderPush \/ ReaderDone

WorkerStep(t) ==
    \/ WorkerStart(t)
    \/ WorkerTryPop(t)
    \/ WorkerCheckDone(t)
    \/ WorkerAlign(t)
    \/ WorkerFinish(t)

WriterStep == WriterTryPop \/ WriterStillWorking \/ WriterWrite

Fairness ==
    /\ WF_vars(PrePass \/ Join)
    /\ WF_vars(ReaderStep)
    /\ \A t \in 0 .. MaxThreads - 1 : WF_vars(t \in Workers /\ WorkerStep(t))
    /\ WF_vars(WriterStep)

SpecFair == Spec /\ Fairness

SpecRowsFair == SpecRows /\ Fairness

----------------------------------------------------------------------------
(* The pipeline on a mapping file longer than seq_queue, with a worker     *)
(* that is scheduled only while the queue is full                          *)

CapExtraRows == 1

InitCap ==
    /\ PipeInit(1, <<[qId |-> 1, ncols |-> IdentityColumn,
                      n |-> SeqQueueCapacity + CapExtraRows]>>, <<1, 2>>)
    /\ ArgsIdle
    /\ RowIdle
    /\ HandyIdle

SeqQueueFull == QueueLen(seq_queue) = SeqQueueCapacity

NextCap ==
    \/ PrePass
    \/ ReaderBeginSeq
    \/ ReaderPush
    \/ ReaderDone
    \/ \E t \in Workers : SeqQueueFull /\ WorkerStart(t)
    \/ \E t \in Workers : SeqQueueFull /\ WorkerTryPop(t)

SpecCap == InitCap /\ [][NextCap]_vars

----------------------------------------------------------------------------
(* The pipeline with a cancellation request.  The design document has a    *)
(* shared stop flag; computeAlignments declares none and no thread reads   *)
(* one, so the request changes only the flag.                              *)

RequestStop ==
    /\ main_pc = "running"
    /\ ~stop
    /\ stop' = TRUE
    /\ UNCHANGED <<pipe_vars, args_vars, row_vars, handy_vars>>

NextStop == Next \/ RequestStop

SpecStop == Init /\ [][NextStop]_vars

----------------------------------------------------------------------------
(* parse_args.hpp.  A command line is a function from the options given to *)
(* their values.  A SIZE or INT string is [N, d, suffix]: the decimal      *)
(* number N / 10^d followed by the suffix; any other string is [text].     *)

MaxOptions == 2         \* options on one command line, besides the target

Num(n) == [kind |-> "num", N |-> n, d |-> 0, suffix |-> ""]
NumS(n, suffix) == [kind |-> "num", N |-> n, d |-> 0, suffix |-> suffix]
Dec(n, d, suffix) == [kind |-> "num", N |-> n, d |-> d, suffix |-> suffix]
Text(t) == [kind |-> "text", text |-> t]
Pct(p) == [kind |-> "float", pct |-> p]
Flag == [kind |-> "flag"]

RECURSIVE Pow(_, _)
Pow(b, e) == IF e = 0 THEN 1 ELSE b * Pow(b, e - 1)

IntMin == -2147483647 - 1
IntMax == 2147483647

\* A 64-bit quantity is kept as three base-10^9 limbs, most significant
\* first, so that values beyond 32 bits can be told apart
Billion == 1000000000
Wide(n) == <<0, n \div Billion, n % Billion>>
Int64Max == <<9, 223372036, 854775807>>
SizeMax == <<18, 446744073, 709551615>>
WideLess(x, y) ==
    \/ x[1] < y[1]
    \/ x[1] = y[1] /\ x[2] < y[2]
    \/ x[1] = y[1] /\ x[2] = y[2] /\ x[3] < y[3]

TwoTo23 == 8388608
TwoTo24 == 16777216

RECURSIVE RoundInt(_, _, _)
\* an integer of more than 24 bits: drop low bits until 24 are left, then
\* round to nearest, ties to even; sticky tells of non-zero bits beyond
RoundInt(q, k, half) ==
    IF q >= TwoTo24
    THEN RoundInt(q \div 2, k + 1,
                  [bit |-> q % 2,
                   sticky |-> half.sticky \/ half.bit = 1])
    ELSE LET up == half.bit = 1 /\ (half.sticky \/ q % 2 = 1)
         IN  [m |-> IF up THEN q + 1 ELSE q, e |-> -k]

RECURSIVE FracBits(_, _, _, _)
\* binary long division of rem/den behind the mantissa m, until m has 24
\* bits or the division ends; then round to nearest, ties to even
FracBits(m, e, rem, den) ==
    IF m >= TwoTo23 \/ rem = 0
    THEN LET up == 2 * rem > den \/ (2 * rem = den /\ m % 2 = 1)
         IN  [m |-> IF up THEN m + 1 ELSE m, e |-> e]
    ELSE LET bit == IF 2 * rem >= den THEN 1 ELSE 0
         IN  FracBits(2 * m + bit, e + 1, 2 * rem - bit * den, den)

\* std::stof of the decimal N / 10^d: the nearest float, m * 2^(-e)
Stof(N, d) ==
    LET den == Pow(10, d)
        ip == N \div den
    IN  IF ip >= TwoTo24
        THEN RoundInt(ip, 0, [bit |-> 0, sticky |-> N % den # 0])
        ELSE FracBits(ip, 0, N % den, den)

SuffixExp(suffix) ==
    IF suffix \in {"k", "K"} THEN 3
    ELSE IF suffix \in {"m", "M"} THEN 6
    ELSE IF suffix \in {"g", "G"} THEN 9
    ELSE 0

RECURSIVE TimesTen(_, _, _)
\* x * 10^n for x = ip + fp / unit, exact (a 24-bit mantissa times at most
\* 10^9 fits a double); big once the integer part leaves 32 bits
TimesTen(x, unit, n) ==
    IF n = 0 \/ x.big THEN x
    ELSE LET f10 == x.fp * 10
             carry == f10 \div unit
         IN  IF x.ip > (IntMax - carry) \div 10
             THEN [ip |-> 0, fp |-> 0, big |-> TRUE]
             ELSE TimesTen([ip |-> x.ip * 10 + carry, fp |-> f10 % unit,
                            big |-> FALSE], unit, n - 1)

\* (int) of a non-negative double: the truncated value when it fits in 32
\* bits; else the conversion is undefined, and the value is what the
\* hardware leaves (0x80000000 from cvttsd2si, the saturated value from
\* fcvtzs)
IntCast(x) == IF x.big THEN {IntMin, IntMax} ELSE {x.ip}

\* handy_parameter(value): the set of values it can return
handy_parameter(value) ==
    IF value.kind # "num" THEN {-1}
    ELSE LET f == Stof(value.N, value.d)
             exp == SuffixExp(value.suffix)
             unit == IF f.e > 0 THEN Pow(2, f.e) ELSE 1
             x == IF f.e > 0
                  THEN [ip |-> f.m \div unit, fp |-> f.m % unit,
                        big |-> FALSE]
                  ELSE IF f.e = 0 \/ f.m <= IntMax \div Pow(2, -f.e)
                  THEN [ip |-> f.m * Pow(2, -f.e), fp |-> 0, big |-> FALSE]
                  ELSE [ip |-> 0, fp |-> 0, big |-> TRUE]
         IN  IntCast(TimesTen(x, unit, exp))

Has(a, o) == o \in DOMAIN a

Count(n) == [kind |-> "int", n |-> n]
List(items) == [kind |-> "list", items |-> items]
Ratio(num, den) == [kind |-> "double", num |-> num, den |-> den]
File(lengths) == [kind |-> "file", lengths |-> lengths]

\* the values an option takes on the command lines of the model
OptionValues(o) ==
    CASE o = "segment_length" ->
            {Num(0), Num(99), Num(100), NumS(10, "k"), NumS(20, "k"),
             NumS(60, "k"), Text("abc")}
      [] o = "map_pct_identity" ->
            {Pct(49), Pct(50), Pct(70), Pct(100), Pct(150)}
      [] o = "block_length" -> {Num(0), NumS(3, "k"), NumS(40, "k"),
                                Text("abc")}
      [] o = "chain_gap" -> {NumS(2, "k"), Text("abc")}
      [] o = "max_mapping_length" ->
            {Text("inf"), Num(0), Num(100), NumS(50, "k"), NumS(200, "k")}
      [] o = "index_by" -> {NumS(4, "G"), NumS(1, "m"), Num(0), Text("abc")}
      [] o = "input_mapping" -> {Text("mappings.paf")}
      [] o = "num_mappings" -> {Count(1), Count(5)}
      [] o = "wfa_params" -> {List(<<4, 6, 2>>), List(<<6, 6, 2, 26, 1>>)}
      [] o = "sparsification" -> {Ratio(1, 2), Ratio(1, 1), Ratio(2, 1)}
      [] o = "sketch_size" -> {Count(0), Count(256)}
      [] o = "kmer_size" -> {Count(19), Count(1000), Count(1010)}
      [] OTHER -> {Flag}

\* the flags whose objects exist when ParseCLI runs (lines 73-130)
Registered == {"help", "version", "approx_mapping", "segment_length",
               "map_pct_identity", "block_length", "chain_gap",
               "max_mapping_length", "index_by", "input_mapping",
               "num_mappings", "wfa_params", "no_filter", "one_to_one",
               "sketch_size", "kmer_size"}

\* the flags a command line of the model can hold: the registered ones,
\* --sparsification, whose object is made after ParseCLI (line 212), and a
\* flag no object has
Options == Registered \cup {"sparsification", "unknown_flag"}

\* command line a with option p of value v added
WithOption(a, p, v) ==
    [o \in DOMAIN a \cup {p} |-> IF o = p THEN v ELSE a[o]]

RECURSIVE CommandLines(_)
\* the command lines with at most k options
CommandLines(k) ==
    IF k = 0 THEN {<<>>}
    ELSE LET fewer == CommandLines(k - 1)
         IN  fewer \cup
             UNION {UNION {{WithOption(a, p, v) : v \in OptionValues(p)} :
                              p \in Options \ DOMAIN a} : a \in fewer}

\* the positional target.fa: a file of sequences of the given lengths
WithTarget(a, lengths) == WithOption(a, "target", File(lengths))

TargetFiles == {<<3>>, <<3, 5>>}

\* totalReferenceSize as the caller of parse_args may leave it
CallerSizes == {0, 123456789}

\* operator bool of a flag object: set by ParseCLI, so never for an object
\* made after ParseCLI ran
Matched(a, f) == f \in Registered /\ Has(a, f)

\* parser.ParseCLI(argc, argv): args::Help at -h, args::ParseError at a
\* flag the parser does not know; of the two, the one met first
ParseCLI(a) ==
    LET unknown == DOMAIN a \ (Registered \cup {"target"}) # {}
    IN  IF Has(a, "help") \/ unknown
        THEN {"help" : x \in {1} \cap {IF Has(a, "help") THEN 1 ELSE 0}}
             \cup {"error" : x \in {1} \cap {IF unknown THEN 1 ELSE 0}}
        ELSE {"ok"}

\* the values handy_parameter can return for option o, 0 when it is absent
Handy(a, o) == IF Has(a, o) THEN handy_parameter(a[o]) ELSE {0}

Exit(code, diag) == [exit |-> code, diag |-> diag]

\* exit codes of parse_args
ExitHelp == 0
ExitVersion == 0
ExitUsage == 1
ExitInvalid == 1

FilterMode_oneToOneFirst(a) ==
    IF Matched(a, "one_to_one") THEN "ONETOONE"
    ELSE IF Matched(a, "no_filter") THEN "NONE"
    ELSE "MAP"

\* map_parameters.filterMode (lines 202-210)
FilterMode(a) ==
    IF Matched(a, "no_filter") THEN "NONE"
    ELSE IF Matched(a, "one_to_one") THEN "ONETOONE"
    ELSE "MAP"

UInt64Max == <<18, 446744073, 709551615>>
TwoTo63 == <<9, 223372036, 854775808>>

\* map_parameters.sparsity_hash_threshold (lines 213-224): the values it
\* can get.  A factor above 1 makes a double beyond 2^64, whose conversion
\* to uint64_t is undefined; of the factors below 1 the half is modelled
SparsityThreshold(a) ==
    IF Matched(a, "sparsification")
    THEN LET v == a["sparsification"]
         IN  IF v.num = v.den THEN {UInt64Max}
             ELSE IF v.num > v.den THEN {<<0, 0, 0>>, TwoTo63, UInt64Max}
             ELSE {TwoTo63}
    ELSE {UInt64Max}

RECURSIVE SumLengths(_)
SumLengths(lengths) ==
    IF lengths = <<>> THEN 0
    ELSE lengths[1] + SumLengths(Tail(lengths))

\* the call skch::CommonFunc::estimateUniqueKmers(n, k), kept as its
\* arguments
estimateUniqueKmers(n, k) == [totalSize |-> n, kmerSize |-> k]

\* a double converted to an integer: the fraction num / den is cut
\* toward zero
Truncate(num, den) ==
    IF num >= 0 THEN num \div den ELSE -((-num) \div den)

\* lines 464-472: ss = -w when it is given and >= 0, else -1; ss > 0 is the
\* sketch size; else md = 1 - p, dens = 0.02 * (1 + md / 0.05) and
\* sketchSize = dens * (segLength - kmerSize), with p = p[1] / p[2], so that
\* dens = (p[2] + 20 * (p[2] - p[1])) / (50 * p[2]).  The float p and the
\* double product round to the same integer for the values of the model.
sketchSize_floor(a, p, segLength, kmerSize) ==
    LET ss == IF Matched(a, "sketch_size") /\ a["sketch_size"].n >= 0
              THEN a["sketch_size"].n ELSE -1
    IN  IF ss > 0 THEN ss
        ELSE ((p[2] + 20 * (p[2] - p[1])) * (segLength - kmerSize))
                 \div (50 * p[2])
sketchSize(a, p, segLength, kmerSize) ==
    LET ss == IF Matched(a, "sketch_size") /\ a["sketch_size"].n >= 0
              THEN a["sketch_size"].n ELSE -1
    IN  IF ss > 0 THEN ss
        ELSE Truncate((p[2] + 20 * (p[2] - p[1])) * (segLength - kmerSize),
                      50 * p[2])

\* map_parameters.block_length = 3 * map_parameters.segLength, line 324
block_length_default_1000(segLength) == 3 * 1000
block_length_default(segLength) == 3 * segLength

SegLengthRejected_above(segLength, P) == WideLess(P, Wide(segLength))

\* map_parameters.segLength >= map_parameters.max_mapping_length
SegLengthRejected(segLength, P) == ~WideLess(Wide(segLength), P)

\* parse_args from ParseCLI to its return, with cli the outcome of ParseCLI,
\* s, l, c, P0, b the values handy_parameter returned for -s, -l, -c, -P
\* and -b, and sp the sparsity threshold; mp and yp are map_parameters and
\* yeet_parameters as the caller passed them
ParseArgsResult(a, mp, yp, cli, s, l, c, P0, b, sp) ==
    LET segLength == IF Matched(a, "segment_length") THEN s ELSE 1000
        inf == Matched(a, "max_mapping_length")
               /\ a["max_mapping_length"] = Text("inf")
        P == IF ~Matched(a, "max_mapping_length") THEN Wide(50000)
             ELSE IF inf THEN Int64Max
             ELSE Wide(P0)
        approx == Matched(a, "approx_mapping")
        scores == IF Matched(a, "wfa_score_params")
                  THEN a["wfa_score_params"].items ELSE <<2, 3, 1>>
        kmerSize == IF Matched(a, "kmer_size") THEN a["kmer_size"].n
                    ELSE 15
        percentageIdentity == IF Matched(a, "map_pct_identity")
                              THEN <<a["map_pct_identity"].pct, 100>>
                              ELSE <<70, 100>>
    IN
    IF cli = "help" THEN Exit(ExitHelp, 0)
    ELSE IF cli = "error" THEN Exit(ExitUsage, 1)
    ELSE IF Matched(a, "version") THEN Exit(ExitVersion, 1)
    ELSE IF ~Has(a, "target") THEN Exit(ExitUsage, 0)
    ELSE IF Matched(a, "wfa_score_params") /\ Len(scores) # 3
         THEN Exit(ExitInvalid, 1)
    ELSE IF Matched(a, "segment_length") /\ s <= 0 THEN Exit(ExitInvalid, 1)
    ELSE IF Matched(a, "segment_length") /\ s < 100 THEN Exit(ExitInvalid, 1)
    ELSE IF Matched(a, "segment_length") /\ ~yp.approx_mapping /\ s > 10000
         THEN Exit(ExitInvalid, 1)
    ELSE IF Matched(a, "map_pct_identity") /\ a["map_pct_identity"].pct < 50
         THEN Exit(ExitInvalid, 1)
    ELSE IF Matched(a, "block_length") /\ l < 0 THEN Exit(ExitInvalid, 1)
    ELSE IF Matched(a, "block_length") /\ ~yp.approx_mapping /\ l > 30000
         THEN Exit(ExitInvalid, 1)
    ELSE IF Matched(a, "chain_gap") /\ c < 0 THEN Exit(ExitInvalid, 1)
    ELSE IF Matched(a, "max_mapping_length") /\ ~inf /\ P0 <= 0
         THEN Exit(ExitInvalid, 1)
    ELSE IF Matched(a, "max_mapping_length") /\ ~yp.approx_mapping
            /\ (inf \/ P0 > 100000)
         THEN Exit(ExitInvalid, 1)
    ELSE IF SegLengthRejected(segLength, P) THEN Exit(ExitInvalid, 1)
    ELSE IF Matched(a, "index_by") /\ b <= 0 THEN Exit(ExitInvalid, 1)
    ELSE IF Matched(a, "num_mappings_for_segments")
            /\ a["num_mappings_for_segments"].n <= 0
         THEN Exit(ExitInvalid, 1)
    ELSE [exit |-> -1, diag |-> 0,
          map |-> [segLength |-> segLength,
                   percentageIdentity |-> percentageIdentity,
                   block_length |-> IF Matched(a, "block_length") THEN l
                                    ELSE block_length_default(segLength),
                   chain_gap |-> IF Matched(a, "chain_gap") THEN c ELSE 2000,
                   max_mapping_length |-> P,
                   index_by_size |-> IF Matched(a, "index_by") THEN Wide(b)
                                     ELSE SizeMax,
                   outFileName |->
                       IF approx THEN "/dev/stdout"
                       ELSE IF Matched(a, "input_mapping")
                            THEN a["input_mapping"].text ELSE "temp_file",
                   filterMode |-> FilterMode(a),
                   sparsity_hash_threshold |-> sp,
                   kmerSize |-> kmerSize,
                   sketchSize |-> sketchSize(a, percentageIdentity, segLength,
                                             kmerSize),
                   numMappingsForSegment |->
                       IF Matched(a, "num_mappings_for_segments")
                       THEN a["num_mappings_for_segments"].n ELSE 1,
                   estimatedUniqueKmers |->
                       estimateUniqueKmers(mp.totalReferenceSize, kmerSize),
                   totalReferenceSize |-> SumLengths(a["target"].lengths)],
          align |-> [wfa_mismatch_score |-> scores[1],
                     wfa_gap_opening_score |-> scores[2],
                     wfa_gap_extension_score |-> scores[3],
                     wfa_patching_mismatch_score |-> 3,
                     wfa_patching_gap_opening_score1 |-> 4,
                     wfa_patching_gap_extension_score1 |-> 2,
                     wfa_patching_gap_opening_score2 |-> 24,
                     wfa_patching_gap_extension_score2 |-> 1],
          yeet |-> [approx_mapping |-> approx,
                    remapping |-> IF ~approx /\ Matched(a, "input_mapping")
                                  THEN TRUE ELSE yp.remapping]]

ParseArgs ==
    /\ args_pc = "start"
    /\ \E cli \in ParseCLI(argv),
          s \in Handy(argv, "segment_length"),
          l \in Handy(argv, "block_length"),
          c \in Handy(argv, "chain_gap"),
          P \in Handy(argv, "max_mapping_length"),
          b \in Handy(argv, "index_by"),
          sp \in SparsityThreshold(argv) :
          LET r == ParseArgsResult(argv, map_parameters, yeet_parameters,
                                   cli, s, l, c, P, b, sp)
              returns == r.exit = -1
          IN  /\ args_pc' = IF returns THEN "returned" ELSE "exited"
              /\ exit_code' = r.exit
              /\ stderr_diag' = stderr_diag + r.diag
              /\ map_parameters' = IF returns THEN r.map ELSE map_parameters
              /\ align_parameters' =
                     IF returns THEN r.align ELSE align_parameters
              /\ yeet_parameters' = IF returns THEN r.yeet ELSE yeet_parameters
    /\ UNCHANGED <<argv, stop_vars, threads, mashmapPafFile, querySequences,
                   faidxs, main_pc, reader, seq_queue, reader_done, working,
                   worker, paf_queue, writer, outstrm, paf_pushed,
                   push_returned, seq_pushed, seq_popped, faidx_used,
                   row_vars, handy_vars>>

\* the alignment pipeline before computeAlignments is entered
PipeIdle ==
    /\ threads = 1
    /\ mashmapPafFile = <<>>
    /\ querySequences = <<>>
    /\ faidxs = <<>>
    /\ main_pc = "idle"
    /\ exit_code = -1
    /\ stderr_diag = 0
    /\ reader = ReaderInit
    /\ seq_queue = <<>>
    /\ reader_done = FALSE
    /\ working = <<>>
    /\ worker = <<>>
    /\ paf_queue = <<>>
    /\ writer = WriterInit
    /\ outstrm = <<>>
    /\ paf_pushed = <<>>
    /\ push_returned = 0
    /\ seq_pushed = <<>>
    /\ seq_popped = 0
    /\ faidx_used = <<>>
    /\ stop = FALSE

InitArgs ==
    /\ \E a \in CommandLines(MaxOptions), target \in BOOLEAN,
          lengths \in TargetFiles :
          argv = IF target THEN WithTarget(a, lengths) ELSE a
    /\ args_pc = "start"
    /\ \E n \in CallerSizes :
          map_parameters = [MapUnset EXCEPT !.totalReferenceSize = n]
    /\ align_parameters = AlignUnset
    /\ yeet_parameters = YeetDefaults
    /\ PipeIdle
    /\ RowIdle
    /\ HandyIdle

NextArgs == ParseArgs

SpecArgs == InitArgs /\ [][NextArgs]_vars

----------------------------------------------------------------------------
(* handy_parameter, lines 32-52, called on one string *)

HandyValues ==
    {Dec(n, d, suffix) : n \in {0, 1, 4, 7, 50, 2000}, d \in {0, 1},
                         suffix \in {"", "k", "K", "m", "M", "g", "G"}}
    \cup {Num(16777217), Text("abc"), Text("inf")}

InitHandy ==
    /\ \E value \in HandyValues : handy_call = [pc |-> "call", value |-> value]
    /\ PipeIdle
    /\ ArgsIdle
    /\ RowIdle

\* const int64_t n = wfmash::handy_parameter(value)
HandyCall ==
    /\ handy_call.pc = "call"
    /\ \E n \in handy_parameter(handy_call.value) :
          handy_call' = [pc |-> "returned", value |-> handy_call.value,
                         result |-> n]
    /\ UNCHANGED <<pipe_vars, stop_vars, args_vars, row_vars>>

NextHandy == HandyCall

SpecHandy == InitHandy /\ [][NextHandy]_vars

----------------------------------------------------------------------------
(* One mapping row from its line to the wflign call: parseMashmapRow,      *)
(* lines 111-140, the rank the reader gives it, lines 248-249, and         *)
(* doAlignment, lines 421-538.  A line is the sequence of its              *)
(* whitespace-separated tokens; the token of the estimated identity is     *)
(* [kind |-> "tag", parts], its text split at ':'.  Positions are          *)
(* multiples of half a wflign_max_len_minor of the shortest segment.       *)

MaxPosSteps == 3        \* positions on the target: 0 .. MaxPosSteps steps

Positions == {i * 6400 : i \in 0 .. MaxPosSteps}

Tag(parts) == [kind |-> "tag", parts |-> parts]

\* align_parameters.wflign_max_len_minor = map_parameters.segLength * 128
wflign_max_len_minor(segLength) == segLength * 128

\* skch::fixed::percentage_identity, as a float over 100
fixed_percentage_identity == <<Stof(70, 0), 100>>

\* the columns of a mapping after the ninth: three more, then the tag of
\* the estimated identity, then one more
ExtraColumns(id) == <<Num(60), Num(100), Num(255), id, Tag(<<Text("kc")>>)>>

\* the line of a mapping of query bases 0..qEnd to target bases
\* rStart..rEnd, cut after ncols columns
RowLine(qEnd, strand, rStart, rEnd, id, ncols) ==
    SubSeq(<<Text("query"), Num(25600), Num(0), Num(qEnd), Text(strand),
             Text("target"), Num(51200), Num(rStart), Num(rEnd)>>
           \o ExtraColumns(id), 1, ncols)

IdentityTags == {Tag(<<Text("id"), Text("f"), Dec(955, 1, "")>>),
                 Tag(<<Text("id"), Text("f"), Text("nan%")>>),
                 Tag(<<Text("kc")>>)}

RowLines ==
    {RowLine(qEnd, strand, rStart, rEnd, id, ncols) :
        qEnd \in {6400}, strand \in {"+", "-"}, rStart \in Positions,
        rEnd \in Positions, id \in IdentityTags,
        ncols \in {MinColumns, IdentityColumn - 1, IdentityColumn,
                   IdentityColumn + 1}}

\* wfmash::is_a_number
is_a_number(word) == word.kind = "num" /\ word.suffix = ""

\* std::stoi of a token of digits
Stoi(word) == word.N

\* what the read of tokens[12] and of mm_id_vec.back() leaves in mm_id:
\* the identity of the tag, or the default; past the end of tokens the
\* read is undefined and leaves either of the two
EstimatedIdentities(tokens) ==
    IF Len(tokens) >= IdentityColumn
    THEN LET parts == tokens[IdentityColumn].parts
             back == parts[Len(parts)]
         IN  IF is_a_number(back)
             THEN {<<Stof(back.N, back.d), 100>>}
             ELSE {fixed_percentage_identity}
    ELSE {fixed_percentage_identity, <<Stof(0, 0), 100>>}

\* parseMashmapRow(mappingRecordLine, currentRecord) on a line of at least
\* nine tokens: how it ends, and currentRecord when it returns
parseMashmapRow(tokens) ==
    UNION {IF Fatal(outcome)
           THEN {[outcome |-> outcome, rec |-> NoRecord]}
           ELSE {[outcome |-> outcome,
                  rec |-> [qId |-> tokens[1].text,
                           qStartPos |-> Stoi(tokens[3]),
                           qEndPos |-> Stoi(tokens[4]),
                           strand |-> IF tokens[5].text = "+" THEN "FWD"
                                      ELSE "REV",
                           refId |-> tokens[6].text,
                           rStartPos |-> Stoi(tokens[8]),
                           rEndPos |-> Stoi(tokens[9]),
                           mashmap_estimated_identity |-> id,
                           rankMapping |-> 0]] :
                    id \in EstimatedIdentities(tokens)} :
           outcome \in ParseOutcomes(Len(tokens))}

\* const uint64_t head_padding = rStartPos >= wflign_max_len_minor ? ... 
head_padding_full(rec, p) == p.wflign_max_len_minor
head_padding(rec, p) ==
    IF rec.rStartPos >= p.wflign_max_len_minor
    THEN p.wflign_max_len_minor
    ELSE rec.rStartPos

\* const uint64_t tail_padding = ref_size - rEndPos >= wflign_max_len_minor
tail_padding(size, rec, p) ==
    IF size - rec.rEndPos >= p.wflign_max_len_minor
    THEN p.wflign_max_len_minor
    ELSE size - rec.rEndPos

\* "_" + std::to_string(rankMapping) when param.split && param.sam_format
query_name_suffix(rec, p) ==
    IF p.split /\ p.sam_format THEN <<"_", rec.rankMapping>> ELSE <<>>

\* the rows of a mapping file lie on their target: the lines whose target
\* interval is inside the sequence of ref_size bases
InitRow ==
    /\ row_pc = "line"
    /\ mappingRecordLine \in RowLines
    /\ ref_size \in Positions
    /\ Stoi(mappingRecordLine[8]) <= Stoi(mappingRecordLine[9])
    /\ Stoi(mappingRecordLine[9]) <= ref_size
    /\ query_rows \in 1 .. MaxRows
    /\ currentRecord = NoRecord
    /\ param \in [wflign_max_len_minor :
                      {wflign_max_len_minor(s) : s \in {100, 150}},
                  split : BOOLEAN, sam_format : BOOLEAN]
    /\ alignment = NoAlignment
    /\ PipeIdle
    /\ ArgsIdle
    /\ HandyIdle

RowUnchanged ==
    UNCHANGED <<mappingRecordLine, query_rows, ref_size, param, pipe_vars,
                stop_vars, args_vars, handy_vars>>

\* parseMashmapRow(mappingRecordLine, currentRecord), line 242 or 255
ParseRow ==
    /\ row_pc = "line"
    /\ \E r \in parseMashmapRow(mappingRecordLine) :
          /\ row_pc' = IF Fatal(r.outcome) THEN r.outcome ELSE "parsed"
          /\ currentRecord' = r.rec
    /\ UNCHANGED alignment
    /\ RowUnchanged

\* q->currentRecord.rankMapping = rank_mapping++: the row is one of the
\* query_rows rows of its query, each of which can be this one
QueueUp ==
    /\ row_pc = "parsed"
    /\ \E rank_mapping \in 0 .. query_rows - 1 :
          currentRecord' = [currentRecord EXCEPT
                              !.rankMapping = rank_mapping]
    /\ row_pc' = "queued"
    /\ UNCHANGED alignment
    /\ RowUnchanged

\* doAlignment up to the call of wflign_affine_wavefront: the paddings, the
\* interval given to faidx_fetch_seq64, ref_seq + head_padding as a
\* position on the target, refLen and the name given to wflign
DoAlignment ==
    /\ row_pc = "queued"
    /\ LET head == head_padding(currentRecord, param)
           tail == tail_padding(ref_size, currentRecord, param)
           beg == currentRecord.rStartPos - head
       IN  alignment' =
               [head_padding |-> head,
                tail_padding |-> tail,
                fetch_beg |-> beg,
                fetch_end |-> currentRecord.rEndPos + tail,
                ref_seq |-> beg + head,
                refLen |-> currentRecord.rEndPos - currentRecord.rStartPos,
                query_name |-> <<currentRecord.qId>>
                               \o query_name_suffix(currentRecord, param)]
    /\ row_pc' = "aligned"
    /\ UNCHANGED currentRecord
    /\ RowUnchanged

NextRow ==
    \/ ParseRow
    \/ QueueUp
    \/ DoAlignment

SpecRow == InitRow /\ [][NextRow]_vars

----------------------------------------------------------------------------
(* Claims *)

RECURSIVE Flatten(_)
Flatten(ss) == IF ss = <<>> THEN <<>> ELSE Head(ss) \o Flatten(Tail(ss))

WorkerLeftLoop(t) == worker[t].pc \in {"store", "done"}

\* C1: a worker that has left its loop left it with seq_queue empty and
\* reader_done true, so no enqueued record stays behind in seq_queue.
C1_WorkerExitsOnEmptyQueue ==
    \A t \in Workers :
        WorkerLeftLoop(t) => (seq_queue = <<>> /\ reader_done)

\* C2: once the writer has exited, every worker is idle, paf_queue is empty
\* and every string pushed to paf_queue is in the output exactly once.
C2_WriterExitsOnEmptyQueue ==
    writer.pc = "done" =>
        /\ \A t \in Workers : ~working[t]
        /\ paf_queue = <<>>
        /\ outstrm = Flatten(paf_pushed)

\* C3: once the writer has exited, reader_done is true, every working flag
\* is false and every worker has run to its end.
C3_WriterExitsLast ==
    writer.pc = "done" =>
        /\ reader_done
        /\ \A t \in Workers : ~working[t] /\ worker[t].pc = "done"

C3_Witness ==
    /\ writer.pc = "done"
    /\ threads >= 2
    /\ paf_pushed # <<>>

\* C4 as stated: seq_queue never holds more than 65536 records.
C4_AtMost65536 == QueueLen(seq_queue) <= 65536

\* C4 as amended: seq_queue never holds more than 131072 (2 << 16) records,
\* every record whose push returned is in the queue or was popped, and no
\* push returns while the queue is full.
C4_Capacity131072 ==
    /\ [](QueueLen(seq_queue) <= 131072)
    /\ [](push_returned = seq_popped + QueueLen(seq_queue))
    /\ [][QueueLen(seq_queue) = 131072 => push_returned' = push_returned]_vars

C4_Witness ==
    /\ QueueLen(seq_queue) = 131072
    /\ seq_popped >= 1
    /\ push_returned = 131073

\* C5: the output is the concatenation of the first k strings pushed to
\* paf_queue, whole and in the order of their pushes, for some k.
C5_ArrivalOrder ==
    \E k \in 0 .. Len(paf_pushed) :
        outstrm = Flatten(SubSeq(paf_pushed, 1, k))

C5_Witness ==
    /\ Len(paf_pushed) >= 2
    /\ outstrm = Flatten(paf_pushed)
    /\ paf_pushed[1][1][1] > paf_pushed[2][1][1]

\* C6: every step that changes the output stream is the writer's
\* outstrm << *paf_lines; a step of a worker or of the reader leaves the
\* stream alone, and a worker's alignment goes to paf_queue.
C6_OnlyWriterWrites ==
    [][/\ outstrm' # outstrm =>
            /\ writer.pc = "write" /\ writer'.pc = "pop"
            /\ outstrm' = outstrm \o writer.paf_lines.str
            /\ worker' = worker
            /\ reader' = reader
       /\ paf_pushed' # paf_pushed =>
            /\ \E t \in Workers : worker[t].pc = "align"
                                   /\ worker'[t].pc = "pop"
            /\ paf_queue' = Append(paf_queue, paf_pushed'[Len(paf_pushed')])
      ]_vars

C6_Witness ==
    /\ outstrm # <<>>
    /\ writer.pc = "write"
    /\ \E t \in Workers : worker[t].pc = "done"

\* C7: there are exactly `threads` handles, all different, and handle
\* faidxs[i] is used by worker i alone.
C7_OwnFaidx ==
    /\ DOMAIN faidxs = 0 .. threads - 1
    /\ \A i, j \in DOMAIN faidxs : faidxs[i] = faidxs[j] => i = j
    /\ \A i \in DOMAIN faidxs : faidx_used[faidxs[i]] \subseteq {i}

C7_Witness ==
    /\ threads >= 2
    /\ \A i \in DOMAIN faidxs : faidx_used[faidxs[i]] = {i}

\* C8: once stop is set, no push to seq_queue returns and no worker takes a
\* record from seq_queue.
C8_StopHonoured ==
    [][stop => (push_returned' = push_returned /\ seq_popped' = seq_popped)
      ]_vars

RECURSIVE HasShortRow(_)
HasShortRow(f) ==
    /\ f # <<>>
    /\ \/ (Head(f).ncols >= 1 /\ Head(f).ncols < 9)
       \/ HasShortRow(Tail(f))

\* C9: a mapping file with a row of fewer than 9 columns ends the process
\* with exit code 2, one diagnostic on stderr and nothing written.
C9_ShortRowExits2 ==
    (HasShortRow(mashmapPafFile) /\ main_pc # "prepass") =>
        /\ main_pc = "aborted"
        /\ exit_code = 2
        /\ stderr_diag = 1
        /\ outstrm = <<>>

\* C10: parse_args leaves with exit code 0 for -h and -v, with 1 for a
\* usage error (a command line the parser rejects, no target file) and
\* with 2 for a value that fails validation (segment length below 100,
\* identity below 50, a batch size that is not positive, segment length
\* not below the maximum mapping length).
C10_ExitCodes ==
    args_pc = "exited" =>
        LET help == Has(argv, "help")
            unknown == DOMAIN argv \ (Registered \cup {"target"}) # {}
            version == Has(argv, "version")
        IN  /\ (help /\ ~unknown) => exit_code = 0
            /\ (version /\ ~help /\ ~unknown) => exit_code = 0
            /\ (unknown /\ ~help) => exit_code = 1
            /\ (~help /\ ~unknown /\ ~version /\ ~Has(argv, "target"))
                   => exit_code = 1
            /\ (~help /\ ~unknown /\ ~version /\ Has(argv, "target"))
                   => exit_code = 2

\* the value handy_parameter gives option o of argv, dflt when it is absent
GivenOr(o, dflt) ==
    IF Has(argv, o) THEN CHOOSE x \in handy_parameter(argv[o]) : TRUE
    ELSE dflt

\* -P of argv is the string inf
GivenInf ==
    Has(argv, "max_mapping_length") /\ argv["max_mapping_length"] = Text("inf")

\* C11: the limits segment length <= 10000, block length <= 30000 and max
\* mapping length <= 100000 hold in align mode only: a command line with -m
\* whose -s, -l and -P pass every other validation (s >= 100, l >= 0,
\* P > 0, s < P) is accepted, whatever their size, and the values are stored.
C11_LimitsOnlyInAlignMode ==
    (/\ args_pc # "start"
     /\ Has(argv, "approx_mapping") /\ Has(argv, "target")
     /\ DOMAIN argv \subseteq {"approx_mapping", "target", "segment_length",
                               "block_length", "max_mapping_length"}
     /\ GivenOr("segment_length", 1000) >= 100
     /\ GivenOr("block_length", 0) >= 0
     /\ (GivenInf \/ GivenOr("max_mapping_length", 50000) > 0)
     /\ (GivenInf \/ GivenOr("segment_length", 1000)
                       < GivenOr("max_mapping_length", 50000)))
    => /\ args_pc = "returned"
       /\ map_parameters.segLength = GivenOr("segment_length", 1000)
       /\ Has(argv, "block_length")
             => map_parameters.block_length = GivenOr("block_length", 0)
       /\ map_parameters.max_mapping_length
             = (IF GivenInf THEN Int64Max
                ELSE Wide(GivenOr("max_mapping_length", 50000)))

\* C12: whenever parse_args returns, 100 <= segLength < max_mapping_length,
\* with segLength = 1000 when -s is absent and max_mapping_length = 50000
\* when -P is absent (the largest int64 for -P inf); and a command line
\* whose -s is below 100 or not below its -P never returns.
C12_SegLengthBelowMax ==
    /\ args_pc = "returned" =>
          /\ map_parameters.segLength >= 100
          /\ WideLess(Wide(map_parameters.segLength),
                      map_parameters.max_mapping_length)
          /\ ~Has(argv, "segment_length") => map_parameters.segLength = 1000
          /\ ~Has(argv, "max_mapping_length")
                => map_parameters.max_mapping_length = Wide(50000)
          /\ GivenInf => map_parameters.max_mapping_length = Int64Max
    /\ (/\ args_pc # "start"
        /\ \/ GivenOr("segment_length", 1000) < 100
           \/ /\ ~GivenInf
              /\ GivenOr("segment_length", 1000)
                    >= GivenOr("max_mapping_length", 50000))
       => args_pc = "exited"

C12_Witness ==
    /\ args_pc = "returned"
    /\ Has(argv, "segment_length") /\ Has(argv, "max_mapping_length")
    /\ map_parameters.segLength = 10000
    /\ map_parameters.max_mapping_length = Wide(50000)

\* C13: when -b is absent, parse_args returns with index_by_size = 4G,
\* that is 4,000,000,000.
C13_DefaultBatch4G ==
    (args_pc = "returned" /\ ~Has(argv, "index_by"))
        => map_parameters.index_by_size = <<0, 4, 0>>

\* C14: parse_args returns with the number of mappings kept equal to the N
\* of -n N, and to 1 when -n is absent.
C14_MappingsOption ==
    args_pc = "returned" =>
        map_parameters.numMappingsForSegment
            = (IF Has(argv, "num_mappings") THEN argv["num_mappings"].n
               ELSE 1)

\* C15: parse_args returns with the WFA scores (mismatch, gap opening, gap
\* extension) equal to the m,o,e of --wfa-params m,o,e, and to (2,3,1)
\* when the option is absent.
C15_WfaParams ==
    args_pc = "returned" =>
        LET scores == <<align_parameters.wfa_mismatch_score,
                        align_parameters.wfa_gap_opening_score,
                        align_parameters.wfa_gap_extension_score>>
        IN  /\ ~Has(argv, "wfa_params") => scores = <<2, 3, 1>>
            /\ (Has(argv, "wfa_params")
                  /\ Len(argv["wfa_params"].items) = 3)
                  => scores = argv["wfa_params"].items

\* C16: a --wfa-params value of five integers is accepted, and parse_args
\* returns with the patching penalties (mismatch, gap1 opening and
\* extension, gap2 opening and extension) equal to them.
C16_FiveWfaParams ==
    (/\ args_pc # "start"
     /\ DOMAIN argv = {"wfa_params", "target"}
     /\ Len(argv["wfa_params"].items) = 5)
    => /\ args_pc = "returned"
       /\ <<align_parameters.wfa_patching_mismatch_score,
            align_parameters.wfa_patching_gap_opening_score1,
            align_parameters.wfa_patching_gap_extension_score1,
            align_parameters.wfa_patching_gap_opening_score2,
            align_parameters.wfa_patching_gap_extension_score2>>
              = argv["wfa_params"].items

\* C17: a sparsification factor above 1.0 ends parse_args with an error
\* (unless -h or -v ends it first);
\* with a factor of exactly 1.0, or without the option, parse_args returns
\* with sparsity_hash_threshold = 2^64 - 1.
C17_SparsificationChecked ==
    LET given == Has(argv, "sparsification")
        v == argv["sparsification"]
    IN  /\ (/\ args_pc # "start"
            /\ ~Has(argv, "help") /\ ~Has(argv, "version")
            /\ given /\ v.num > v.den)
              => (args_pc = "exited" /\ exit_code # 0)
        /\ (/\ args_pc # "start"
            /\ Has(argv, "target")
            /\ DOMAIN argv \subseteq {"sparsification", "target"}
            /\ given => v.num = v.den)
              => /\ args_pc = "returned"
                 /\ map_parameters.sparsity_hash_threshold = UInt64Max

\* C18: the total reference size that estimatedUniqueKmers is computed from
\* is the sum of the lengths of all target sequences.
C18_EstimateAfterScan ==
    args_pc = "returned" =>
        map_parameters.estimatedUniqueKmers.totalSize
            = SumLengths(argv["target"].lengths)

\* C19: parse_args returns with filter mode NONE when -f is given, else
\* ONE_TO_ONE when -o is given, else MAP.
C19_FilterMode ==
    args_pc = "returned" =>
        /\ Has(argv, "no_filter") => map_parameters.filterMode = "NONE"
        /\ (Has(argv, "one_to_one") /\ ~Has(argv, "no_filter"))
              => map_parameters.filterMode = "ONETOONE"
        /\ (~Has(argv, "one_to_one") /\ ~Has(argv, "no_filter"))
              => map_parameters.filterMode = "MAP"

C19_Witness ==
    /\ args_pc = "returned"
    /\ Has(argv, "no_filter") /\ Has(argv, "one_to_one")
    /\ map_parameters.filterMode = "NONE"

\* C20: a -p value below 50 ends parse_args with an error (unless -h or -v
\* ends it first), and parse_args
\* returns with percentageIdentity = v / 100 for the given v, and between
\* 0.5 and 1.  (The stored float is v / 100 rounded; 0.5 and 1 are floats,
\* so rounding keeps both comparisons.)
C20_IdentityRange ==
    /\ (/\ args_pc # "start"
        /\ ~Has(argv, "help") /\ ~Has(argv, "version")
        /\ Has(argv, "map_pct_identity")
        /\ argv["map_pct_identity"].pct < 50)
          => (args_pc = "exited" /\ exit_code # 0)
    /\ args_pc = "returned" =>
          LET p == map_parameters.percentageIdentity
          IN  /\ Has(argv, "map_pct_identity")
                    => p = <<argv["map_pct_identity"].pct, 100>>
              /\ p[2] <= 2 * p[1]
              /\ p[1] <= p[2]

\* C21: for 0 <= rStartPos <= rEndPos <= ref_size, doAlignment pads the
\* target interval on both sides by wflign_max_len_minor, clamped to the
\* sequence: head_padding is the smaller of rStartPos and
\* wflign_max_len_minor, tail_padding the smaller of ref_size - rEndPos and
\* wflign_max_len_minor, the interval fetched lies inside [0, ref_size], and
\* after ref_seq + head_padding the first target base aligned is rStartPos.
C21_PaddingClamped ==
    row_pc = "aligned" =>
        LET minor == param.wflign_max_len_minor
            rStartPos == currentRecord.rStartPos
            rEndPos == currentRecord.rEndPos
            head == alignment.head_padding
            tail == alignment.tail_padding
        IN  /\ head <= rStartPos /\ head <= minor
            /\ head \in {rStartPos, minor}
            /\ tail <= ref_size - rEndPos /\ tail <= minor
            /\ tail \in {ref_size - rEndPos, minor}
            /\ 0 <= alignment.fetch_beg
            /\ alignment.fetch_beg <= alignment.fetch_end
            /\ alignment.fetch_end <= ref_size
            /\ alignment.fetch_beg = rStartPos - head
            /\ alignment.fetch_end = rEndPos + tail
            /\ alignment.ref_seq = rStartPos

\* both paddings are cut: the interval starts and ends nearer to the ends of
\* the target than wflign_max_len_minor
C21_Witness ==
    /\ row_pc = "aligned"
    /\ currentRecord.rStartPos > 0
    /\ currentRecord.rStartPos < param.wflign_max_len_minor
    /\ ref_size - currentRecord.rEndPos > 0
    /\ ref_size - currentRecord.rEndPos < param.wflign_max_len_minor
    /\ alignment.head_padding = currentRecord.rStartPos
    /\ alignment.fetch_end = ref_size

\* C22: when -l is not given, parse_args returns with block_length equal to
\* three times the segment length that is in effect at its return, be it the
\* default or the value of -s.
C22_DefaultBlockLength ==
    (args_pc = "returned" /\ ~Has(argv, "block_length")) =>
        /\ map_parameters.block_length = map_parameters.segLength * 3
        /\ map_parameters.segLength \in
               IF Has(argv, "segment_length")
               THEN handy_parameter(argv["segment_length"])
               ELSE {1000}

C22_Witness ==
    /\ args_pc = "returned"
    /\ ~Has(argv, "block_length")
    /\ Has(argv, "segment_length")
    /\ map_parameters.segLength = 10000
    /\ map_parameters.block_length = 30000

\* C23: every record whose push returned is in seq_queue, or was popped by
\* one worker, which holds it until doAlignment has run and the record is
\* deleted; once all workers have exited, seq_queue is empty, every record
\* pushed was popped and no worker holds a record.
C23_EveryRecordAligned ==
    /\ push_returned = seq_popped + QueueLen(seq_queue)
    /\ \A t \in Workers : worker[t].rec.ptr <=> worker[t].pc = "align"
    /\ (worker # <<>> /\ \A t \in Workers : worker[t].pc = "done") =>
           /\ seq_queue = <<>>
           /\ seq_popped = push_returned

\* C24: for every mapping file whose rows have at least nine columns, under
\* fair scheduling the pipeline terminates: eventually the reader has set
\* reader_done, every worker and the writer have exited and the joins have
\* returned.
C24_Terminates ==
    ~HasShortRow(mashmapPafFile) =>
        <>(/\ main_pc = "joined"
           /\ reader_done
           /\ \A t \in Workers : worker[t].pc = "done"
           /\ writer.pc = "done")

RECURSIVE Pushes(_)
\* the records of a run-length encoded history, one by one
Pushes(h) ==
    IF h = <<>> THEN <<>>
    ELSE <<[row |-> Head(h).row, rank |-> Head(h).rank, seq |-> Head(h).seq]>>
         \o Pushes(IF Head(h).n = 1 THEN Tail(h)
                   ELSE <<[Head(h) EXCEPT !.row = @ + 1, !.rank = @ + 1,
                                          !.n = @ - 1]>> \o Tail(h))

\* the place of query name q in the query file, 0 when it is not there
SeqIndex(q) ==
    IF \E i \in DOMAIN querySequences : querySequences[i] = q
    THEN CHOOSE i \in DOMAIN querySequences : querySequences[i] = q
    ELSE 0

NonEmptyRow(i) == RowAt(mashmapPafFile, i).ncols > 0

\* row i was enqueued exactly once, with the sequence of its query
EnqueuedOnce(i) ==
    LET p == Pushes(seq_pushed)
        at == {k \in DOMAIN p : p[k].row = i}
    IN  /\ Cardinality(at) = 1
        /\ \A k \in at :
              querySequences[p[k].seq] = RowAt(mashmapPafFile, i).qId

\* the non-empty rows up to row i name sequences of the query file, in the
\* order of the query file
InQueryOrder(i) ==
    \A j \in 1 .. i :
        NonEmptyRow(j) =>
            /\ SeqIndex(RowAt(mashmapPafFile, j).qId) > 0
            /\ \A l \in 1 .. j :
                  NonEmptyRow(l) =>
                      SeqIndex(RowAt(mashmapPafFile, l).qId)
                          <= SeqIndex(RowAt(mashmapPafFile, j).qId)

\* C25 as stated: once the reader has finished, every non-empty row whose
\* query name is a sequence of the query file was enqueued exactly once,
\* with that query's sequence, whatever the order of the rows.
C25_EveryRowEnqueued ==
    reader.pc = "done" =>
        \A i \in 1 .. FileLen(mashmapPafFile) :
            (NonEmptyRow(i) /\ SeqIndex(RowAt(mashmapPafFile, i).qId) > 0)
                => EnqueuedOnce(i)

\* C25 as amended: once the reader has finished, every non-empty row that,
\* with the non-empty rows before it, names sequences of the query file in
\* the order of the query file was enqueued exactly once, with that query's
\* sequence, and no row was enqueued twice.
C25_RowsInQueryOrderEnqueued ==
    reader.pc = "done" =>
        /\ \A i \in 1 .. FileLen(mashmapPafFile) :
              (NonEmptyRow(i) /\ InQueryOrder(i)) => EnqueuedOnce(i)
        /\ \A k, l \in DOMAIN Pushes(seq_pushed) :
              Pushes(seq_pushed)[k].row = Pushes(seq_pushed)[l].row => k = l

\* a row of the second query after a row of the first, both enqueued
C25_Witness ==
    /\ reader.pc = "done"
    /\ FileLen(mashmapPafFile) = 2
    /\ InQueryOrder(2)
    /\ RowAt(mashmapPafFile, 1).qId = 1
    /\ RowAt(mashmapPafFile, 2).qId = 2
    /\ Len(Pushes(seq_pushed)) = 2

\* C26: the records the reader has enqueued are in file order, and the
\* rankMapping of each is the number of records enqueued before it for the
\* same query sequence: 0, 1, 2, ... within a query sequence, without gaps
\* or repeats, and 0 again for the first record of the next one.
C26_RankPerQuery ==
    LET p == Pushes(seq_pushed)
    IN  \A k \in DOMAIN p :
            /\ p[k].rank = Cardinality({j \in 1 .. k - 1 :
                                            p[j].seq = p[k].seq})
            /\ \A j \in 1 .. k - 1 :
                  p[j].row < p[k].row /\ p[j].seq <= p[k].seq

C26_Witness ==
    LET p == Pushes(seq_pushed)
    IN  /\ reader.pc = "done"
        /\ Len(p) = 2
        /\ p[1].seq = p[2].seq
        /\ p[1].rank = 0
        /\ p[2].rank = 1

\* the first record of the second query sequence, after one of the first
C26_Restart ==
    LET p == Pushes(seq_pushed)
    IN  /\ Len(p) = 2
        /\ p[1].seq < p[2].seq
        /\ p[2].rank = 0

\* the value of a SIZE string N / 10^d with its suffix, when it is a whole
\* number, as base-10^9 limbs
ExactValue(value) ==
    LET exp == SuffixExp(value.suffix)
    IN  IF exp = 9
        THEN <<0, value.N \div Pow(10, value.d),
               (value.N % Pow(10, value.d)) * Pow(10, 9 - value.d)>>
        ELSE Wide((value.N * Pow(10, exp)) \div Pow(10, value.d))

WholeValue(value) ==
    value.d <= SuffixExp(value.suffix) \/ value.N % Pow(10, value.d) = 0

\* C27: handy_parameter returns -1 for a string that is not a number and,
\* for a number with or without a suffix k/K, m/M, g/G, exactly the value
\* times 1, 10^3, 10^6 or 10^9 (4G gives 4000000000, 50k gives 50000).
C27_HandyExact ==
    handy_call.pc = "returned" =>
        LET value == handy_call.value
            n == handy_call.result
        IN  IF value.kind # "num" THEN n = -1
            ELSE WholeValue(value) =>
                     (n >= 0 /\ Wide(n) = ExactValue(value))

\* C28: parseMashmapRow returns on every row of at least nine fields, with
\* qId, qStartPos, qEndPos, strand, refId, rStartPos and rEndPos taken from
\* fields 1, 3, 4, 5, 6, 8 and 9, and with mashmap_estimated_identity set to
\* the default identity when the field of the estimated identity is missing
\* or does not end in a number.
C28_AcceptsNineFields ==
    (row_pc # "line" /\ Len(mappingRecordLine) >= 9) =>
        LET tokens == mappingRecordLine
            missing == Len(tokens) < 13
            parts == tokens[13].parts
        IN  /\ ~Fatal(row_pc)
            /\ currentRecord.qId = tokens[1].text
            /\ currentRecord.qStartPos = tokens[3].N
            /\ currentRecord.qEndPos = tokens[4].N
            /\ currentRecord.strand = "FWD" <=> tokens[5].text = "+"
            /\ currentRecord.refId = tokens[6].text
            /\ currentRecord.rStartPos = tokens[8].N
            /\ currentRecord.rEndPos = tokens[9].N
            /\ (missing \/ parts[Len(parts)].kind # "num") =>
                   currentRecord.mashmap_estimated_identity
                       = fixed_percentage_identity

\* C29: the name given to wflign is the query name followed by
\* "_<rankMapping>" only in SAM output with splitting enabled; in PAF output
\* or with no-split it is the bare query name, and so it is for a query
\* that has a single alignment (rank 0 only).
C29_SuffixOnlyToTellApart ==
    row_pc = "aligned" =>
        LET bare == <<currentRecord.qId>>
            suffixed == alignment.query_name # bare
        IN  /\ suffixed =>
                  /\ param.split /\ param.sam_format
                  /\ alignment.query_name
                         = bare \o <<"_", currentRecord.rankMapping>>
            /\ ~(param.split /\ param.sam_format) => ~suffixed
            /\ query_rows = 1 => ~suffixed

\* the value of option o on the command line, dflt when it is not given
ValueOr(o, dflt) == IF Has(argv, o) THEN argv[o] ELSE dflt

============================================================================
